---- MODULE Spec2Model ----
(***************************************************************************)
(* A model of serde-redis: the decode engine (src/src/decode.rs), the      *)
(* encode engine (src/src/encode.rs), the dual-mode iterator               *)
(* (src/src/cow_iter.rs) and the entry points of src/src/lib.rs.           *)
(*                                                                         *)
(* Byte strings are sequences of byte values (0..255).  Integers are       *)
(* modelled for the 8- and 16-bit widths, whose whole text/parse behaviour *)
(* fits the model checker's integers.                                      *)
(***************************************************************************)
EXTENDS Integers, Sequences, FiniteSets, TLC

(***************************************************************************)
(* Bounds of the explored inputs.                                          *)
(***************************************************************************)
\* longest byte string enumerated over ByteAlphabet
MaxLen == 2
\* largest number of key/value pairs in an enumerated struct reply
MaxPairs == 3
\* largest number of elements in an enumerated sequence reply
MaxElems == 2

(***************************************************************************)
(* redis::Value, the wire value tree.                                      *)
(***************************************************************************)
Data(bytes) == [tag |-> "Data", bytes |-> bytes, int |-> 0, items |-> <<>>]
Int_(i) == [tag |-> "Int", bytes |-> <<>>, int |-> i, items |-> <<>>]
Bulk(values) == [tag |-> "Bulk", bytes |-> <<>>, int |-> 0, items |-> values]
Nil == [tag |-> "Nil", bytes |-> <<>>, int |-> 0, items |-> <<>>]

(***************************************************************************)
(* Cow<'a, T>: a borrowed reference or an owned value.                     *)
(***************************************************************************)
CowBorrowed(v) == [cow |-> "Borrowed", v |-> v]
CowOwned(v) == [cow |-> "Owned", v |-> v]

(***************************************************************************)
(* Host values (what serde visitors build, what Serialize impls walk).     *)
(***************************************************************************)
HBool(b) == [k |-> "bool", n |-> 0, s |-> <<>>, t |-> b, items |-> <<>>, names |-> <<>>]
HInt(n) == [k |-> "int", n |-> n, s |-> <<>>, t |-> FALSE, items |-> <<>>, names |-> <<>>]
HStr(s) == [k |-> "string", n |-> 0, s |-> s, t |-> FALSE, items |-> <<>>, names |-> <<>>]
HBytes(s) == [k |-> "bytes", n |-> 0, s |-> s, t |-> FALSE, items |-> <<>>, names |-> <<>>]
HNone == [k |-> "none", n |-> 0, s |-> <<>>, t |-> FALSE, items |-> <<>>, names |-> <<>>]
HSome(v) == [k |-> "some", n |-> 0, s |-> <<>>, t |-> FALSE, items |-> <<v>>, names |-> <<>>]
HSeq(vs) == [k |-> "seq", n |-> 0, s |-> <<>>, t |-> FALSE, items |-> vs, names |-> <<>>]
HTuple(vs) == [k |-> "tuple", n |-> 0, s |-> <<>>, t |-> FALSE, items |-> vs, names |-> <<>>]
HStruct(names, vs) == [k |-> "struct", n |-> 0, s |-> <<>>, t |-> FALSE, items |-> vs, names |-> names]
HIgnored == [k |-> "ignored", n |-> 0, s |-> <<>>, t |-> FALSE, items |-> <<>>, names |-> <<>>]
\* enum values: n is the variant index, s the variant name
HUnitVariant(i, name) == [k |-> "unit_variant", n |-> i, s |-> name, t |-> FALSE, items |-> <<>>, names |-> <<>>]
HNewtypeVariant(i, name, v) == [k |-> "newtype_variant", n |-> i, s |-> name, t |-> FALSE, items |-> <<v>>, names |-> <<>>]
HTupleVariant(i, name, vs) == [k |-> "tuple_variant", n |-> i, s |-> name, t |-> FALSE, items |-> vs, names |-> <<>>]
HStructVariant(i, name, names, vs) == [k |-> "struct_variant", n |-> i, s |-> name, t |-> FALSE, items |-> vs, names |-> names]

(***************************************************************************)
(* Type requests: the host type whose Deserialize impl drives the decoder. *)
(***************************************************************************)
TBool == [k |-> "bool", signed |-> FALSE, bits |-> 0, sub |-> <<>>, names |-> <<>>]
TInt(signed, bits) == [k |-> "int", signed |-> signed, bits |-> bits, sub |-> <<>>, names |-> <<>>]
TString == [k |-> "string", signed |-> FALSE, bits |-> 0, sub |-> <<>>, names |-> <<>>]
TByteBuf == [k |-> "bytes", signed |-> FALSE, bits |-> 0, sub |-> <<>>, names |-> <<>>]
TOption(t) == [k |-> "option", signed |-> FALSE, bits |-> 0, sub |-> <<t>>, names |-> <<>>]
TVec(t) == [k |-> "seq", signed |-> FALSE, bits |-> 0, sub |-> <<t>>, names |-> <<>>]
TTuple(ts) == [k |-> "tuple", signed |-> FALSE, bits |-> 0, sub |-> ts, names |-> <<>>]
TStruct(names, ts) == [k |-> "struct", signed |-> FALSE, bits |-> 0, sub |-> ts, names |-> names]
TIgnoredAny == [k |-> "ignored", signed |-> FALSE, bits |-> 0, sub |-> <<>>, names |-> <<>>]
\* an enum: names are the variant names, sub the shape of each variant
TUnitV == [k |-> "unit_variant", signed |-> FALSE, bits |-> 0, sub |-> <<>>, names |-> <<>>]
TNewtypeV(t) == [k |-> "newtype_variant", signed |-> FALSE, bits |-> 0, sub |-> <<t>>, names |-> <<>>]
TTupleV(ts) == [k |-> "tuple_variant", signed |-> FALSE, bits |-> 0, sub |-> ts, names |-> <<>>]
TStructV(names, ts) == [k |-> "struct_variant", signed |-> FALSE, bits |-> 0, sub |-> ts, names |-> names]
TEnum(names, variants) == [k |-> "enum", signed |-> FALSE, bits |-> 0, sub |-> variants, names |-> names]
U8 == TInt(FALSE, 8)
I8 == TInt(TRUE, 8)
U16 == TInt(FALSE, 16)
I16 == TInt(TRUE, 16)

(***************************************************************************)
(* decode::Result<T> and the decode::Error kinds.                          *)
(***************************************************************************)
Ok(v) == [ok |-> TRUE, val |-> v, err |-> "", field |-> <<>>]
Err(kind) == [ok |-> FALSE, val |-> HNone, err |-> kind, field |-> <<>>]
ErrField(kind, name) == [ok |-> FALSE, val |-> HNone, err |-> kind, field |-> name]

\* Error::wrong_value
wrong_value == Err("WrongValue")

\* variant: missing_field left to the trait default, which goes through custom
missing_field_default(field) == [ok |-> FALSE, val |-> HNone, err |-> "Custom", field |-> field]

\* de::Error::missing_field for decode::Error
missing_field(field) == ErrField("MissingField", field)

\* de::Error::duplicate_field for decode::Error
duplicate_field(field) == ErrField("DuplicateField", field)

\* de::Error::custom for decode::Error
custom == Err("Custom")

\* de::Error::unknown_variant for decode::Error
unknown_variant == Err("UnknownVariant")

(***************************************************************************)
(* Text of the standard library: integer formatting and parsing, UTF-8.    *)
(***************************************************************************)
Pow2(w) == IF w = 8 THEN 256 ELSE 65536
MinOf(t) == IF t.signed THEN 0 - (Pow2(t.bits) \div 2) ELSE 0
MaxOf(t) == IF t.signed THEN (Pow2(t.bits) \div 2) - 1 ELSE Pow2(t.bits) - 1

RECURSIVE Digits(_)
Digits(n) == IF n < 10 THEN <<48 + n>> ELSE Digits(n \div 10) \o <<48 + (n % 10)>>

\* <integer>::to_string
to_string(n) == IF n < 0 THEN <<45>> \o Digits(0 - n) ELSE Digits(n)

IsDigit(b) == b >= 48 /\ b <= 57

\* the checked accumulation loop of from_str_radix: acc is the magnitude read
\* so far, lim the largest magnitude the target type holds for this sign
RECURSIVE ParseDigits(_, _, _, _)
ParseDigits(digits, i, acc, lim) ==
    IF i > Len(digits) THEN [ok |-> TRUE, n |-> acc]
    ELSE IF ~IsDigit(digits[i]) THEN [ok |-> FALSE, n |-> 0]
    ELSE LET nxt == acc * 10 + (digits[i] - 48)
         IN IF nxt > lim THEN [ok |-> FALSE, n |-> 0]
            ELSE ParseDigits(digits, i + 1, nxt, lim)

\* str::parse::<$ty> for an integer type
parse(src, t) ==
    IF Len(src) = 0 THEN [ok |-> FALSE, n |-> 0]
    ELSE IF Len(src) = 1 /\ src[1] \in {43, 45} THEN [ok |-> FALSE, n |-> 0]
    ELSE IF src[1] = 43 THEN ParseDigits(Tail(src), 1, 0, MaxOf(t))
    ELSE IF src[1] = 45 /\ t.signed
         THEN LET r == ParseDigits(Tail(src), 1, 0, 0 - MinOf(t))
              IN [ok |-> r.ok, n |-> 0 - r.n]
    ELSE ParseDigits(src, 1, 0, MaxOf(t))

IsCont(b) == b >= 128 /\ b <= 191

\* str::from_utf8 / String::from_utf8: is the byte string well-formed UTF-8
RECURSIVE ValidUtf8From(_, _)
ValidUtf8From(bytes, i) ==
    IF i > Len(bytes) THEN TRUE
    ELSE LET b == bytes[i]
             has(k) == i + k <= Len(bytes)
         IN IF b < 128 THEN ValidUtf8From(bytes, i + 1)
            ELSE IF b >= 194 /\ b <= 223
                 THEN has(1) /\ IsCont(bytes[i + 1]) /\ ValidUtf8From(bytes, i + 2)
            ELSE IF b >= 224 /\ b <= 239
                 THEN /\ has(2)
                      /\ IsCont(bytes[i + 1]) /\ IsCont(bytes[i + 2])
                      /\ (b = 224 => bytes[i + 1] >= 160)
                      /\ (b = 237 => bytes[i + 1] <= 159)
                      /\ ValidUtf8From(bytes, i + 3)
            ELSE IF b >= 240 /\ b <= 244
                 THEN /\ has(3)
                      /\ IsCont(bytes[i + 1]) /\ IsCont(bytes[i + 2]) /\ IsCont(bytes[i + 3])
                      /\ (b = 240 => bytes[i + 1] >= 144)
                      /\ (b = 244 => bytes[i + 1] <= 143)
                      /\ ValidUtf8From(bytes, i + 4)
            ELSE FALSE

from_utf8(bytes) == ValidUtf8From(bytes, 1)

(***************************************************************************)
(* decode.rs: the Deserializer cursor, a peekable iterator over            *)
(* Vec<Cow<Value>>, modelled as the sequence of values not yet consumed.   *)
(***************************************************************************)
\* AsValueVec for &'a Value
as_value_vec_ref(v) == <<CowBorrowed(v)>>
\* AsValueVec for Value
as_value_vec_owned(v) == <<CowOwned(v)>>
\* AsValueVec for Cow<'a, Value>
as_value_vec_cow(c) == <<c>>

\* AsValueVec for Vec<Cow<'a, Value>>
as_value_vec_vec(values) == values

\* Deserializer::new
Deserializer_new(values) == values

\* Deserializer::peek
peek(values) ==
    IF Len(values) = 0 THEN [some |-> FALSE, v |-> Nil]
    ELSE [some |-> TRUE, v |-> values[1].v]

\* variant: an exhausted cursor yields Nil
next_end_nil(values) ==
    IF Len(values) = 0
    THEN [ok |-> TRUE, err |-> "", c |-> CowOwned(Nil), rest |-> values]
    ELSE [ok |-> TRUE, err |-> "", c |-> values[1], rest |-> Tail(values)]

\* Deserializer::next
next(values) ==
    IF Len(values) = 0
    THEN [ok |-> FALSE, err |-> "EndOfStream", c |-> CowOwned(Nil), rest |-> values]
    ELSE [ok |-> TRUE, err |-> "", c |-> values[1], rest |-> Tail(values)]

\* variant: a value that is not a Bulk is taken as an array of one element
next_bulk_wrapping(values) ==
    LET r == next(values)
    IN IF ~r.ok THEN r
       ELSE IF r.c.v.tag = "Bulk"
            THEN [ok |-> TRUE, err |-> "", c |-> [cow |-> r.c.cow, v |-> r.c.v.items], rest |-> r.rest]
       ELSE [ok |-> TRUE, err |-> "", c |-> [cow |-> r.c.cow, v |-> <<r.c.v>>], rest |-> r.rest]

\* Deserializer::next_bulk
next_bulk(values) ==
    LET r == next(values)
    IN IF ~r.ok THEN r
       ELSE IF r.c.v.tag = "Bulk"
            THEN [ok |-> TRUE, err |-> "", c |-> [cow |-> r.c.cow, v |-> r.c.v.items], rest |-> r.rest]
       ELSE [ok |-> FALSE, err |-> "WrongValue", c |-> r.c, rest |-> r.rest]

\* variant: a value that is not Data is left on the cursor
next_bytes_keep(values) ==
    LET r == next(values)
    IN IF ~r.ok THEN r
       ELSE IF r.c.v.tag = "Data"
            THEN [ok |-> TRUE, err |-> "", c |-> [cow |-> r.c.cow, v |-> r.c.v.bytes], rest |-> r.rest]
       ELSE [ok |-> FALSE, err |-> "WrongValue", c |-> r.c, rest |-> values]

\* Deserializer::next_bytes
next_bytes(values) ==
    LET r == next(values)
    IN IF ~r.ok THEN r
       ELSE IF r.c.v.tag = "Data"
            THEN [ok |-> TRUE, err |-> "", c |-> [cow |-> r.c.cow, v |-> r.c.v.bytes], rest |-> r.rest]
       ELSE [ok |-> FALSE, err |-> "WrongValue", c |-> r.c, rest |-> r.rest]

\* variant: without the arm for owned Data
read_string_borrowed_only(values) ==
    LET r == next(values)
    IN IF ~r.ok THEN r
       ELSE IF r.c.v.tag = "Data" /\ r.c.cow = "Borrowed"
            THEN IF from_utf8(r.c.v.bytes)
                 THEN [ok |-> TRUE, err |-> "", c |-> CowBorrowed(r.c.v.bytes), rest |-> r.rest]
                 ELSE [ok |-> FALSE, err |-> "StrFromUtf8", c |-> r.c, rest |-> r.rest]
       ELSE [ok |-> FALSE, err |-> "WrongValue", c |-> r.c, rest |-> r.rest]

\* variant: Nil read as the empty string
read_string_nil_empty(values) ==
    LET r == next(values)
    IN IF ~r.ok THEN r
       ELSE IF r.c.v.tag = "Nil"
            THEN [ok |-> TRUE, err |-> "", c |-> [cow |-> r.c.cow, v |-> <<>>], rest |-> r.rest]
       ELSE IF r.c.v.tag = "Data"
            THEN IF from_utf8(r.c.v.bytes)
                 THEN [ok |-> TRUE, err |-> "", c |-> [cow |-> r.c.cow, v |-> r.c.v.bytes], rest |-> r.rest]
                 ELSE [ok |-> FALSE,
                       err |-> IF r.c.cow = "Owned" THEN "StringFromUtf8" ELSE "StrFromUtf8",
                       c |-> r.c, rest |-> r.rest]
       ELSE [ok |-> FALSE, err |-> "WrongValue", c |-> r.c, rest |-> r.rest]

\* Deserializer::read_string
read_string(values) ==
    LET r == next(values)
    IN IF ~r.ok THEN r
       ELSE IF r.c.v.tag = "Data" /\ r.c.cow = "Owned"
            THEN IF from_utf8(r.c.v.bytes)
                 THEN [ok |-> TRUE, err |-> "", c |-> CowOwned(r.c.v.bytes), rest |-> r.rest]
                 ELSE [ok |-> FALSE, err |-> "StringFromUtf8", c |-> r.c, rest |-> r.rest]
       ELSE IF r.c.v.tag = "Data" /\ r.c.cow = "Borrowed"
            THEN IF from_utf8(r.c.v.bytes)
                 THEN [ok |-> TRUE, err |-> "", c |-> CowBorrowed(r.c.v.bytes), rest |-> r.rest]
                 ELSE [ok |-> FALSE, err |-> "StrFromUtf8", c |-> r.c, rest |-> r.rest]
       ELSE [ok |-> FALSE, err |-> "WrongValue", c |-> r.c, rest |-> r.rest]

(***************************************************************************)
(* cow_iter.rs                                                             *)
(***************************************************************************)
\* CowIter::new: the iterator keeps the mode of the Cow<Vec<Value>> it is given
CowIter_new(values) == [cow |-> values.cow, rest |-> values.v]

\* variant: the values are taken from the back
CowIter_next_back(iter) ==
    IF Len(iter.rest) = 0
    THEN [some |-> FALSE, c |-> CowOwned(Nil), iter |-> iter]
    ELSE [some |-> TRUE,
          c |-> IF iter.cow = "Borrowed" THEN CowBorrowed(iter.rest[Len(iter.rest)])
                ELSE CowOwned(iter.rest[Len(iter.rest)]),
          iter |-> [cow |-> iter.cow, rest |-> SubSeq(iter.rest, 1, Len(iter.rest) - 1)]]

\* variant: every value is yielded as an owned clone
CowIter_next_cloning(iter) ==
    IF Len(iter.rest) = 0
    THEN [some |-> FALSE, c |-> CowOwned(Nil), iter |-> iter]
    ELSE [some |-> TRUE, c |-> CowOwned(iter.rest[1]),
          iter |-> [cow |-> iter.cow, rest |-> Tail(iter.rest)]]

\* Iterator::next for CowIter
CowIter_next(iter) ==
    IF Len(iter.rest) = 0
    THEN [some |-> FALSE, c |-> CowOwned(Nil), iter |-> iter]
    ELSE [some |-> TRUE,
          c |-> IF iter.cow = "Borrowed" THEN CowBorrowed(iter.rest[1]) ELSE CowOwned(iter.rest[1]),
          iter |-> [cow |-> iter.cow, rest |-> Tail(iter.rest)]]

(***************************************************************************)
(* decode.rs: impl serde::Deserializer for Deserializer.  The visitor of   *)
(* each request is the one serde supplies for the requested host type t.   *)
(***************************************************************************)
RECURSIVE Deserialize(_, _)
RECURSIVE VecVisitor_visit_seq(_, _, _)
RECURSIVE TupleVisitor_visit_seq(_, _, _, _)
RECURSIVE StructVisitor_visit_map(_, _, _)
RECURSIVE StructVisitor_visit_seq(_, _, _, _)

\* variant: a cast that saturates at the bounds of the target type
as_cast_saturating(i, t) ==
    IF i > MaxOf(t) THEN MaxOf(t) ELSE IF i < MinOf(t) THEN MinOf(t) ELSE i

\* `i as $ty`: two's-complement truncation to the target width
as_cast(i, t) ==
    LET m == i % Pow2(t.bits)
    IN IF t.signed /\ m > MaxOf(t) THEN m - Pow2(t.bits) ELSE m

\* variant: text that does not parse is reported as a wrong value
impl_num_parse_wrong(t, values) ==
    LET r == next(values)
    IN IF ~r.ok THEN Err(r.err)
       ELSE IF r.c.v.tag = "Data"
            THEN IF ~from_utf8(r.c.v.bytes)
                 THEN Err(IF r.c.cow = "Owned" THEN "StringFromUtf8" ELSE "StrFromUtf8")
                 ELSE LET p == parse(r.c.v.bytes, t)
                      IN IF p.ok THEN Ok(HInt(p.n)) ELSE wrong_value
       ELSE IF r.c.v.tag = "Int" THEN Ok(HInt(as_cast(r.c.v.int, t)))
       ELSE wrong_value

\* variant: without the Value::Int arms
impl_num_data_only(t, values) ==
    LET r == next(values)
    IN IF ~r.ok THEN Err(r.err)
       ELSE IF r.c.v.tag = "Data"
            THEN IF ~from_utf8(r.c.v.bytes)
                 THEN Err(IF r.c.cow = "Owned" THEN "StringFromUtf8" ELSE "StrFromUtf8")
                 ELSE LET p == parse(r.c.v.bytes, t)
                      IN IF p.ok THEN Ok(HInt(p.n)) ELSE Err("ParseInt")
       ELSE wrong_value

\* impl_num!: deserialize_u8 .. deserialize_i64
impl_num(t, values) ==
    LET r == next(values)
    IN IF ~r.ok THEN Err(r.err)
       ELSE IF r.c.cow = "Borrowed" /\ r.c.v.tag = "Data"
            THEN IF ~from_utf8(r.c.v.bytes) THEN Err("StrFromUtf8")
                 ELSE LET p == parse(r.c.v.bytes, t)
                      IN IF p.ok THEN Ok(HInt(p.n)) ELSE Err("ParseInt")
       ELSE IF r.c.cow = "Owned" /\ r.c.v.tag = "Data"
            THEN IF ~from_utf8(r.c.v.bytes) THEN Err("StringFromUtf8")
                 ELSE LET p == parse(r.c.v.bytes, t)
                      IN IF p.ok THEN Ok(HInt(p.n)) ELSE Err("ParseInt")
       ELSE IF r.c.v.tag = "Int" THEN Ok(HInt(as_cast(r.c.v.int, t)))
       ELSE wrong_value

\* deserialize_any: only a byte string is accepted
deserialize_any(t, values) ==
    LET buf == next_bytes(values)
    IN IF ~buf.ok THEN Err(buf.err)
       ELSE IF t.k = "ignored" THEN Ok(HIgnored)
       ELSE IF t.k = "bytes" THEN Ok(HBytes(buf.c.v))
       ELSE custom

\* deserialize_string
deserialize_string(values) ==
    LET s == read_string(values)
    IN IF ~s.ok THEN Err(s.err) ELSE Ok(HStr(s.c.v))

\* deserialize_str
deserialize_str(values) ==
    LET s == read_string(values)
    IN IF ~s.ok THEN Err(s.err) ELSE Ok(HStr(s.c.v))

B_1 == <<49>>
B_0 == <<48>>
B_true == <<116, 114, 117, 101>>
B_True == <<84, 114, 117, 101>>
B_false == <<102, 97, 108, 115, 101>>
B_False == <<70, 97, 108, 115, 101>>

\* variant: without the capitalised literals
deserialize_bool_lowercase(values) ==
    LET s == read_string(values)
    IN IF ~s.ok THEN Err(s.err)
       ELSE IF s.c.v \in {B_1, B_true} THEN Ok(HBool(TRUE))
       ELSE IF s.c.v \in {B_0, B_false} THEN Ok(HBool(FALSE))
       ELSE wrong_value

\* deserialize_bool
deserialize_bool(values) ==
    LET s == read_string(values)
    IN IF ~s.ok THEN Err(s.err)
       ELSE IF s.c.v \in {B_1, B_true, B_True} THEN Ok(HBool(TRUE))
       ELSE IF s.c.v \in {B_0, B_false, B_False} THEN Ok(HBool(FALSE))
       ELSE wrong_value

\* deserialize_byte_buf
deserialize_byte_buf(values) ==
    LET bytes == next_bytes(values)
    IN IF ~bytes.ok THEN Err(bytes.err) ELSE Ok(HBytes(bytes.c.v))

\* deserialize_bytes
deserialize_bytes(values) == deserialize_byte_buf(values)

\* deserialize_ignored_any
deserialize_ignored_any(values) == deserialize_any(TIgnoredAny, values)

\* variant: without the error arm, every value but Nil is present
deserialize_option_lenient(t, values) ==
    LET p == peek(values)
    IN IF p.some /\ p.v.tag # "Nil"
       THEN LET inner == Deserialize(t.sub[1], values)
            IN IF inner.ok THEN Ok(HSome(inner.val)) ELSE inner
       ELSE Ok(HNone)

\* variant: the front value is taken with next instead of peek
deserialize_option_consuming(t, values) ==
    LET r == next(values)
    IN IF r.ok /\ r.c.v.tag \in {"Data", "Int"}
       THEN LET inner == Deserialize(t.sub[1], r.rest)
            IN IF inner.ok THEN Ok(HSome(inner.val)) ELSE inner
       ELSE IF r.ok /\ r.c.v.tag # "Nil" THEN wrong_value
       ELSE Ok(HNone)

\* variant: the front value is taken off the cursor to be looked at
option_maybe_taking(values) ==
    LET r == next(values)
    IN [some |-> r.ok /\ r.c.v.tag \in {"Data", "Int"},
        err |-> r.ok /\ r.c.v.tag \notin {"Data", "Int", "Nil"},
        rest |-> r.rest]

\* deserialize_option, `let maybe = match self.peek()`: whether a value is
\* present, or the request fails, and the cursor the visitor is then given
option_maybe(values) ==
    LET p == peek(values)
    IN [some |-> p.some /\ p.v.tag \in {"Data", "Int"},
        err |-> p.some /\ p.v.tag \notin {"Data", "Int", "Nil"},
        rest |-> values]

\* deserialize_option
deserialize_option(t, values) ==
    LET maybe == option_maybe(values)
    IN IF maybe.err THEN wrong_value
       ELSE IF maybe.some
       THEN LET inner == Deserialize(t.sub[1], maybe.rest)
            IN IF inner.ok THEN Ok(HSome(inner.val)) ELSE inner
       ELSE Ok(HNone)

\* deserialize_seq
deserialize_seq(t, values) ==
    LET b == next_bulk(values)
    IN IF ~b.ok THEN Err(b.err)
       ELSE IF t.k = "tuple"
            THEN TupleVisitor_visit_seq(t, CowIter_new(b.c), 1, <<>>)
       ELSE IF t.k = "struct"
            THEN StructVisitor_visit_seq(t, CowIter_new(b.c), 1, <<>>)
       ELSE VecVisitor_visit_seq(t, CowIter_new(b.c), <<>>)

\* deserialize_tuple
deserialize_tuple(t, values) == deserialize_seq(t, values)

\* deserialize_map
deserialize_map(t, values) ==
    LET b == next_bulk(values)
    IN IF ~b.ok THEN Err(b.err)
       ELSE StructVisitor_visit_map(t, CowIter_new(b.c),
                                    [i \in 1..Len(t.names) |-> [set |-> FALSE, val |-> HNone]])

\* variant: the struct is requested as a sequence, fields by position
deserialize_struct_positional(t, values) == deserialize_seq(t, values)

\* deserialize_struct
deserialize_struct(t, values) == deserialize_map(t, values)

\* deserialize_identifier; the derived field visitor maps a name to the index
\* of the declared field, 0 standing for the ignored (undeclared) identifier
deserialize_identifier(t, values) ==
    LET s == deserialize_str(values)
    IN IF ~s.ok THEN s
       ELSE IF \E i \in 1..Len(t.names) : t.names[i] = s.val.s
            THEN Ok(HInt(CHOOSE i \in 1..Len(t.names) : t.names[i] = s.val.s))
       ELSE IF t.k = "variant" THEN unknown_variant
       ELSE Ok(HInt(0))

\* variant: a failing element ends the sequence
SeqVisitor_next_element_seed_ok(iter, seed) ==
    LET n == CowIter_next(iter)
        r == Deserialize(seed, Deserializer_new(as_value_vec_cow(n.c)))
    IN IF n.some /\ r.ok
       THEN [some |-> TRUE, res |-> r, iter |-> n.iter]
       ELSE [some |-> FALSE, res |-> Ok(HNone), iter |-> n.iter]

\* variant: a nested Bulk element is spread over the element cursor
SeqVisitor_next_element_seed_flat(iter, seed) ==
    LET n == CowIter_next(iter)
    IN IF n.some
       THEN [some |-> TRUE,
             res |-> Deserialize(seed,
                        IF n.c.v.tag = "Bulk"
                        THEN [i \in 1..Len(n.c.v.items) |-> [cow |-> n.c.cow, v |-> n.c.v.items[i]]]
                        ELSE Deserializer_new(as_value_vec_cow(n.c))),
             iter |-> n.iter]
       ELSE [some |-> FALSE, res |-> Ok(HNone), iter |-> n.iter]

\* SeqVisitor::next_element_seed
SeqVisitor_next_element_seed(iter, seed) ==
    LET n == CowIter_next(iter)
    IN IF n.some
       THEN [some |-> TRUE, res |-> Deserialize(seed, Deserializer_new(as_value_vec_cow(n.c))), iter |-> n.iter]
       ELSE [some |-> FALSE, res |-> Ok(HNone), iter |-> n.iter]

\* MapVisitor::next_key_seed
MapVisitor_next_key_seed(iter, seed) ==
    LET n == CowIter_next(iter)
    IN IF n.some
       THEN [some |-> TRUE, res |-> Deserialize(seed, Deserializer_new(as_value_vec_cow(n.c))), iter |-> n.iter]
       ELSE [some |-> FALSE, res |-> Ok(HNone), iter |-> n.iter]

\* MapVisitor::next_value_seed
MapVisitor_next_value_seed(iter, seed) ==
    LET n == CowIter_next(iter)
    IN IF n.some
       THEN [res |-> Deserialize(seed, Deserializer_new(as_value_vec_cow(n.c))), iter |-> n.iter]
       ELSE [res |-> Err("EndOfStream"), iter |-> n.iter]

(***************************************************************************)
(* The visitors serde supplies for the host types of the tests.            *)
(***************************************************************************)
\* the field-identifier request of a derived struct
TField(names) == [k |-> "field", signed |-> FALSE, bits |-> 0, sub |-> <<>>, names |-> names]

\* Vec<T>: elements are requested until the sequence reports its end
VecVisitor_visit_seq(t, iter, acc) ==
    LET e == SeqVisitor_next_element_seed(iter, t.sub[1])
    IN IF ~e.res.ok THEN e.res
       ELSE IF ~e.some THEN Ok(HSeq(acc))
       ELSE VecVisitor_visit_seq(t, e.iter, Append(acc, e.res.val))

\* (T0, .., Tn): one element is requested per component, a missing one is
\* invalid_length, which decode::Error reports through Error::custom
TupleVisitor_visit_seq(t, iter, i, acc) ==
    IF i > Len(t.sub) THEN Ok(HTuple(acc))
    ELSE LET e == SeqVisitor_next_element_seed(iter, t.sub[i])
         IN IF ~e.res.ok THEN e.res
            ELSE IF ~e.some THEN custom
            ELSE TupleVisitor_visit_seq(t, e.iter, i + 1, Append(acc, e.res.val))

\* #[derive(Deserialize)] struct: visit_seq, the fields taken by position
StructVisitor_visit_seq(t, iter, i, acc) ==
    IF i > Len(t.sub) THEN Ok(HStruct(t.names, acc))
    ELSE LET e == SeqVisitor_next_element_seed(iter, t.sub[i])
         IN IF ~e.res.ok THEN e.res
            ELSE IF ~e.some THEN custom
            ELSE StructVisitor_visit_seq(t, e.iter, i + 1, Append(acc, e.res.val))

\* a field that never appeared: an Option field is None, any other field is
\* Error::missing_field, reported for the first such field in declaration order
StructVisitor_finish(t, slots) ==
    LET missing(i) == ~slots[i].set /\ t.sub[i].k # "option"
    IN IF \E i \in 1..Len(t.names) : missing(i)
       THEN LET i == CHOOSE i \in 1..Len(t.names) :
                        missing(i) /\ \A j \in 1..(i - 1) : ~missing(j)
            IN missing_field(t.names[i])
       ELSE Ok(HStruct(t.names, [i \in 1..Len(t.names) |->
                                    IF slots[i].set THEN slots[i].val ELSE HNone]))

\* #[derive(Deserialize)] struct: visit_map
StructVisitor_visit_map(t, iter, slots) ==
    LET key == MapVisitor_next_key_seed(iter, TField(t.names))
    IN IF ~key.res.ok THEN key.res
       ELSE IF ~key.some THEN StructVisitor_finish(t, slots)
       ELSE IF key.res.val.n = 0
            THEN LET v == MapVisitor_next_value_seed(key.iter, TIgnoredAny)
                 IN IF ~v.res.ok THEN v.res
                    ELSE StructVisitor_visit_map(t, v.iter, slots)
       ELSE IF slots[key.res.val.n].set
            THEN duplicate_field(t.names[key.res.val.n])
       ELSE LET v == MapVisitor_next_value_seed(key.iter, t.sub[key.res.val.n])
            IN IF ~v.res.ok THEN v.res
               ELSE StructVisitor_visit_map(t, v.iter,
                        [slots EXCEPT ![key.res.val.n] = [set |-> TRUE, val |-> v.res.val]])

\* the variant-identifier request of a derived enum
TVariant(names) == [k |-> "variant", signed |-> FALSE, bits |-> 0, sub |-> <<>>, names |-> names]

\* EnumAccess::variant_seed for EnumVisitor
EnumVisitor_variant_seed(data, seed) ==
    [res |-> Deserialize(seed, Deserializer_new(as_value_vec_cow(data.variant))),
     variant |-> [value |-> data.content]]

\* VariantAccess::unit_variant for VariantVisitor
unit_variant(variant) == Ok(HNone)

\* VariantAccess::newtype_variant_seed for VariantVisitor
newtype_variant_seed(variant, seed) ==
    Deserialize(seed, Deserializer_new(as_value_vec_cow(variant.value)))

\* VariantAccess::tuple_variant for VariantVisitor
tuple_variant(variant, t) ==
    deserialize_any(t, Deserializer_new(as_value_vec_cow(variant.value)))

\* VariantAccess::struct_variant for VariantVisitor
struct_variant(variant, t) ==
    deserialize_any(t, Deserializer_new(as_value_vec_cow(variant.value)))

\* #[derive(Deserialize)] enum: visit_enum
EnumVisitor_visit_enum(t, data) ==
    LET id == EnumVisitor_variant_seed(data, TVariant(t.names))
    IN IF ~id.res.ok THEN id.res
       ELSE LET i == id.res.val.n
                vt == t.sub[i]
            IN IF vt.k = "unit_variant"
               THEN LET u == unit_variant(id.variant)
                    IN IF u.ok THEN Ok(HUnitVariant(i - 1, t.names[i])) ELSE u
               ELSE IF vt.k = "newtype_variant"
               THEN LET v == newtype_variant_seed(id.variant, vt.sub[1])
                    IN IF v.ok THEN Ok(HNewtypeVariant(i - 1, t.names[i], v.val)) ELSE v
               ELSE IF vt.k = "tuple_variant"
               THEN tuple_variant(id.variant, vt)
               ELSE struct_variant(id.variant, vt)

\* variant: the payload is the value that follows the variant on the cursor
deserialize_enum_payload(t, values) ==
    LET r == next(values)
        c == next(r.rest)
    IN IF ~r.ok THEN Err(r.err)
       ELSE EnumVisitor_visit_enum(t, [variant |-> r.c,
                                       content |-> IF c.ok THEN c.c ELSE CowOwned(Nil)])

\* deserialize_enum: the EnumVisitor it builds over the value taken
EnumVisitor_new(variant) == [variant |-> variant, content |-> CowOwned(Nil)]

\* deserialize_enum
deserialize_enum(t, values) ==
    LET r == next(values)
    IN IF ~r.ok THEN Err(r.err)
       ELSE EnumVisitor_visit_enum(t, EnumVisitor_new(r.c))

\* <T as Deserialize>::deserialize: the request each host type makes
Deserialize(t, values) ==
    CASE t.k = "bool" -> deserialize_bool(values)
      [] t.k = "int" -> impl_num(t, values)
      [] t.k = "string" -> deserialize_string(values)
      [] t.k = "bytes" -> deserialize_byte_buf(values)
      [] t.k = "option" -> deserialize_option(t, values)
      [] t.k = "seq" -> deserialize_seq(t, values)
      [] t.k = "tuple" -> deserialize_tuple(t, values)
      [] t.k = "struct" -> deserialize_struct(t, values)
      [] t.k = "field" -> deserialize_identifier(t, values)
      [] t.k = "variant" -> deserialize_identifier(t, values)
      [] t.k = "enum" -> deserialize_enum(t, values)
      [] t.k = "ignored" -> deserialize_ignored_any(values)

(***************************************************************************)
(* encode.rs: impl serde::Serializer for Serializer, and SerializeVec.     *)
(***************************************************************************)
RECURSIVE Serialize(_)
RECURSIVE collect_seq(_, _, _)
RECURSIVE collect_struct(_, _, _)
RECURSIVE collect_tuple_variant(_, _, _)
RECURSIVE collect_struct_variant(_, _, _)

\* encode::Result<Value>
SerOk(v) == [ok |-> TRUE, v |-> v, err |-> ""]
SerErr(kind) == [ok |-> FALSE, v |-> Nil, err |-> kind]

\* variant: the number kept as a native Integer
serialize_num_native(v) == SerOk(Int_(v))

\* impl_num!: serialize_u8 .. serialize_i64
serialize_num(v) == SerOk(Data(to_string(v)))

\* serialize_i32
serialize_i32(v) == serialize_num(v)

\* variant: the two arms exchanged
serialize_bool_swapped(v) == IF v THEN serialize_i32(0) ELSE serialize_i32(1)

\* serialize_bool
serialize_bool(v) == IF v THEN serialize_i32(1) ELSE serialize_i32(0)

\* serialize_str
serialize_str(v) == SerOk(Data(v))

\* serialize_bytes
serialize_bytes(v) == SerOk(Data(v))

\* serialize_none
serialize_none == SerOk(Nil)

\* serialize_some
serialize_some(v) == Serialize(v)

\* the outcome of a call that panics instead of returning
SerPanic == [ok |-> FALSE, v |-> Nil, err |-> "panic"]

\* variant: the variant written as its index
serialize_unit_variant_index(variant_index, variant) == serialize_num(variant_index)

\* serialize_unit_variant
serialize_unit_variant(variant_index, variant) == serialize_str(variant)

\* serialize_newtype_variant: todo!()
serialize_newtype_variant(variant_index, variant, value) == SerPanic

\* serialize_seq, serialize_tuple, serialize_struct: an empty SerializeVec
SerializeVec_new == [vec |-> <<>>]

\* SerializeVec::to_value
to_value(sv) == Bulk(sv.vec)

\* variant: the element pushed at the front
serialize_element_front(sv, value) ==
    LET v == Serialize(value)
    IN IF ~v.ok THEN [ok |-> FALSE, err |-> v.err, sv |-> sv]
       ELSE [ok |-> TRUE, err |-> "", sv |-> [vec |-> <<v.v>> \o sv.vec]]

\* SerializeSeq::serialize_element / SerializeTuple::serialize_element
serialize_element(sv, value) ==
    LET v == Serialize(value)
    IN IF ~v.ok THEN [ok |-> FALSE, err |-> v.err, sv |-> sv]
       ELSE [ok |-> TRUE, err |-> "", sv |-> [vec |-> Append(sv.vec, v.v)]]

\* variant: the value pushed before the key
serialize_field_value_first(sv, key, value) ==
    LET k == Data(key)
        v == Serialize(value)
    IN IF ~v.ok THEN [ok |-> FALSE, err |-> v.err, sv |-> sv]
       ELSE [ok |-> TRUE, err |-> "", sv |-> [vec |-> Append(Append(sv.vec, v.v), k)]]

\* SerializeStruct::serialize_field
serialize_field(sv, key, value) ==
    LET k == Data(key)
        v == Serialize(value)
    IN IF ~v.ok THEN [ok |-> FALSE, err |-> v.err, sv |-> sv]
       ELSE [ok |-> TRUE, err |-> "", sv |-> [vec |-> Append(Append(sv.vec, k), v.v)]]

\* SerializeSeq::end / SerializeTuple::end / SerializeStruct::end
end(sv) == SerOk(to_value(sv))

\* serialize_tuple_variant: an empty SerializeVec
serialize_tuple_variant(variant_index, variant) == [vec |-> <<>>]

\* serialize_struct_variant: an empty SerializeVec
serialize_struct_variant(variant_index, variant) == [vec |-> <<>>]

\* SerializeTupleVariant::serialize_field
SerializeTupleVariant_serialize_field(sv, value) ==
    LET v == Serialize(value)
    IN IF ~v.ok THEN [ok |-> FALSE, err |-> v.err, sv |-> sv]
       ELSE [ok |-> TRUE, err |-> "", sv |-> [vec |-> Append(sv.vec, v.v)]]

\* SerializeStructVariant::serialize_field
SerializeStructVariant_serialize_field(sv, key, value) ==
    LET k == Data(key)
        v == Serialize(value)
    IN IF ~v.ok THEN [ok |-> FALSE, err |-> v.err, sv |-> sv]
       ELSE [ok |-> TRUE, err |-> "", sv |-> [vec |-> Append(Append(sv.vec, k), v.v)]]

\* #[derive(Serialize)] enum, tuple variant: every field in order, then end
collect_tuple_variant(sv, h, i) ==
    IF i > Len(h.items) THEN end(sv)
    ELSE LET r == SerializeTupleVariant_serialize_field(sv, h.items[i])
         IN IF ~r.ok THEN SerErr(r.err) ELSE collect_tuple_variant(r.sv, h, i + 1)

\* #[derive(Serialize)] enum, struct variant: every field in order, then end
collect_struct_variant(sv, h, i) ==
    IF i > Len(h.items) THEN end(sv)
    ELSE LET r == SerializeStructVariant_serialize_field(sv, h.names[i], h.items[i])
         IN IF ~r.ok THEN SerErr(r.err) ELSE collect_struct_variant(r.sv, h, i + 1)

\* Serialize for Vec<T> and tuples: every element in iteration order, then end
collect_seq(sv, items, i) ==
    IF i > Len(items) THEN end(sv)
    ELSE LET r == serialize_element(sv, items[i])
         IN IF ~r.ok THEN SerErr(r.err) ELSE collect_seq(r.sv, items, i + 1)

\* #[derive(Serialize)] struct: every field in declaration order, then end
collect_struct(sv, h, i) ==
    IF i > Len(h.items) THEN end(sv)
    ELSE LET r == serialize_field(sv, h.names[i], h.items[i])
         IN IF ~r.ok THEN SerErr(r.err) ELSE collect_struct(r.sv, h, i + 1)

\* <T as Serialize>::serialize(Serializer): the call each host value makes
Serialize(h) ==
    CASE h.k = "bool" -> serialize_bool(h.t)
      [] h.k = "int" -> serialize_num(h.n)
      [] h.k = "string" -> serialize_str(h.s)
      [] h.k = "bytes" -> serialize_bytes(h.s)
      [] h.k = "none" -> serialize_none
      [] h.k = "some" -> serialize_some(h.items[1])
      [] h.k = "seq" -> collect_seq(SerializeVec_new, h.items, 1)
      [] h.k = "tuple" -> collect_seq(SerializeVec_new, h.items, 1)
      [] h.k = "struct" -> collect_struct(SerializeVec_new, h, 1)
      [] h.k = "unit_variant" -> serialize_unit_variant(h.n, h.s)
      [] h.k = "newtype_variant" -> serialize_newtype_variant(h.n, h.s, h.items[1])
      [] h.k = "tuple_variant" -> collect_tuple_variant(serialize_tuple_variant(h.n, h.s), h, 1)
      [] h.k = "struct_variant" -> collect_struct_variant(serialize_struct_variant(h.n, h.s), h, 1)

(***************************************************************************)
(* The inputs explored: host types of the tests, replies of the store.     *)
(***************************************************************************)
\* '+', '-', '0', '1', '5', 'a', 0xC3 0xA9 (a two-byte character), 0xFF
ByteAlphabet == {43, 45, 48, 49, 53, 97, 195, 169, 255}

ShortBytes == UNION {[1..n -> ByteAlphabet] : n \in 0..MaxLen}

B_a == <<97>>
B_b == <<98>>
B_c == <<99>>
B_hello == <<104, 101, 108, 108, 111>>
B_apple == <<97, 112, 112, 108, 101>>
B_Orange == <<79, 114, 97, 110, 103, 101>>
B_Apple == <<65, 112, 112, 108, 101>>
B_Unit == <<85, 110, 105, 116>>
B_New == <<78, 101, 119>>
B_Opt == <<79, 112, 116>>
B_Tup == <<84, 117, 112>>
B_Rec == <<82, 101, 99>>

LiteralBytes ==
    {B_true, B_True, B_false, B_False, B_hello, B_apple,
     B_Orange, B_Apple, B_Unit, B_New, B_Opt, B_Tup, B_Rec,
     <<84, 82, 85, 69>>, <<116, 114, 117>>, <<116, 114, 117, 101, 32>>,
     <<49, 50, 55>>, <<49, 50, 56>>, <<45, 49, 50, 56>>, <<45, 49, 50, 57>>,
     <<50, 53, 53>>, <<50, 53, 54>>, <<48, 48, 55>>,
     <<51, 50, 55, 54, 55>>, <<51, 50, 55, 54, 56>>, <<45, 51, 50, 55, 54, 56>>,
     <<45, 51, 50, 55, 54, 57>>, <<54, 53, 53, 51, 53>>, <<54, 53, 53, 51, 54>>}

AllBytes == ShortBytes \cup LiteralBytes

Utf8Strings == {b \in AllBytes : from_utf8(b)}

IntSamples == {0 - 32769, 0 - 32768, 0 - 129, 0 - 128, 0 - 1, 0, 1, 5, 127, 128,
               255, 256, 300, 32767, 32768, 65535, 65536}

ScalarReplies ==
    {Data(b) : b \in AllBytes} \cup {Int_(i) : i \in IntSamples}
        \cup {Nil, Bulk(<<>>), Bulk(<<Data(B_1)>>)}

ScalarTypes == {TBool, U8, I8, U16, I16, TString, TByteBuf, TOption(U8), TOption(TString)}

\* struct Simple { a: String, b: String }              (tests/de.rs)
Simple == TStruct(<<B_a, B_b>>, <<TString, TString>>)
\* a struct with a required and an optional field, as Complex of tests/de.rs
Complex == TStruct(<<B_a, B_b>>, <<U8, TOption(TString)>>)
\* struct Foo { f1: String, f2, f3: Option<..>, f5: bool }   (tests/serde.rs)
B_f1 == <<102, 49>>
B_f2 == <<102, 50>>
B_f3 == <<102, 51>>
B_f5 == <<102, 53>>
Foo == TStruct(<<B_f1, B_f2, B_f3, B_f5>>, <<TString, I8, TOption(I16), TBool>>)

StructTypes == {Simple, Complex}

PairKeys == {B_a, B_b, B_c}
PairValues == {Data(B_1), Data(B_apple), Int_(5), Nil, Bulk(<<>>)}
Pairs == {<<Data(k), v>> : k \in PairKeys, v \in PairValues}

RECURSIVE Flatten(_)
Flatten(ps) == IF Len(ps) = 0 THEN <<>> ELSE ps[1] \o Flatten(Tail(ps))

PairLists == UNION {[1..n -> Pairs] : n \in 0..MaxPairs}

\* arrays whose last key has no value
OddKeys == {Data(B_a), Data(B_b), Data(B_c), Data(<<255>>), Int_(5)}
OddReplies ==
    {Bulk(Flatten(ps) \o <<k>>) :
        ps \in UNION {[1..n -> Pairs] : n \in 0..(MaxPairs - 2)}, k \in OddKeys}

StructReplies ==
    {Bulk(Flatten(ps)) : ps \in PairLists} \cup OddReplies
        \cup {Bulk(<<Data(B_a)>>), Bulk(<<Data(<<255>>), Data(B_1)>>),
              Bulk(<<Int_(5), Data(B_1)>>), Data(B_a), Nil}

\* replies holding sequences: tuples, vectors, pipelined structs
InnerReplies ==
    {Bulk(<<Data(B_a), Data(B_apple), Data(B_b), Data(B_1)>>),
     Bulk(<<Data(B_b), Data(B_hello), Data(B_a), Data(B_1)>>),
     Bulk(<<Data(B_c), Data(B_1), Data(B_a), Data(B_hello), Data(B_b), Data(B_apple)>>),
     Bulk(<<Data(B_a), Data(B_apple)>>),
     Bulk(<<Data(B_hello)>>)}
ElemValues ==
    InnerReplies \cup {Int_(5), Int_(300), Data(<<53>>), Data(B_hello), Data(<<255>>), Nil}

SeqReplies == {Bulk(es) : es \in UNION {[1..n -> ElemValues] : n \in 0..MaxElems}}

Pair_u8_String == TTuple(<<U8, TString>>)
SeqTypes == {TVec(Simple), Pair_u8_String, TVec(U8), TVec(TString)}

\* enum Fruit { Orange, Apple }
Fruit == TEnum(<<B_Orange, B_Apple>>, <<TUnitV, TUnitV>>)
\* an enum with one variant of every shape:
\* enum Mixed { Unit, New(u8), Opt(Option<String>), Tup(u8, String), Rec { a: String } }
Mixed ==
    TEnum(<<B_Unit, B_New, B_Opt, B_Tup, B_Rec>>,
          <<TUnitV, TNewtypeV(U8), TNewtypeV(TOption(TString)),
            TTupleV(<<U8, TString>>), TStructV(<<B_a>>, <<TString>>)>>)
EnumTypes == {Fruit, Mixed}
EnumReplies ==
    ScalarReplies \cup {Bulk(<<Data(B_Tup), Data(<<53>>), Data(B_hello)>>),
                        Bulk(<<Data(B_New), Data(<<53>>)>>), Bulk(<<Data(B_Orange)>>)}

\* replies that are not an Array, for the requests that need one
NonArrayReplies == {Data(B_hello), Int_(5), Nil}

\* replies for an optional sequence
OptionReplies == SeqReplies \cup {Nil, Data(B_1), Int_(5)}

\* the (reply, request) pairs a decode call may be handed
Inputs ==
    (ScalarReplies \X ScalarTypes) \cup (StructReplies \X StructTypes)
        \cup (SeqReplies \X SeqTypes) \cup (EnumReplies \X EnumTypes)
        \cup (OptionReplies \X {TOption(TVec(U8))})
        \cup (NonArrayReplies \X (SeqTypes \cup StructTypes))

\* the vectors of values a decoder may be built over by hand, with the request
VecValues == {Data(B_1), Data(B_hello), Data(B_Opt), Data(B_Tup), Nil, Bulk(<<Data(B_1)>>)}
VecTypes ==
    {TBool, U8, TString, TByteBuf, TOption(U8), TVec(U8), Pair_u8_String, Simple,
     Fruit, Mixed}
VecInputs == (UNION {[1..n -> VecValues] : n \in 0..MaxElems}) \X VecTypes
\* the vector a decoder was built over, kept in the record of the input
ValueVec(values) == [tag |-> "Vec", bytes |-> <<>>, int |-> 0, items |-> values]

\* host values handed to the encoder, with their types
SmallStrings == {<<>>, B_hello, <<195, 169>>}
FooValues ==
    {HStruct(Foo.names, <<HStr(s), HInt(i), o, HBool(b)>>) :
        s \in SmallStrings, i \in {0 - 128, 0 - 1, 7, 127},
        o \in {HNone, HSome(HInt(0 - 32768)), HSome(HInt(2)), HSome(HInt(32767))},
        b \in BOOLEAN}
SimpleValues ==
    {HStruct(Simple.names, <<HStr(x), HStr(y)>>) : x \in SmallStrings, y \in SmallStrings}
\* struct Details { time, ids: Vec<String> } and a struct holding a struct
B_time == <<116, 105, 109, 101>>
B_ids == <<105, 100, 115>>
B_key == <<107, 101, 121>>
Details == TStruct(<<B_time, B_ids>>, <<I16, TVec(TString)>>)
Holder == TStruct(<<B_key>>, <<Details>>)
DetailsValues ==
    {HStruct(Details.names, <<HInt(i), HSeq(ids)>>) :
        i \in {0, 1473},
        ids \in UNION {[1..n -> {HStr(B_a), HStr(B_hello)}] : n \in 0..MaxElems}}
HolderValues == {HStruct(Holder.names, <<d>>) : d \in DetailsValues}

FruitValues == {HUnitVariant(0, B_Orange), HUnitVariant(1, B_Apple)}
MixedValues ==
    {HUnitVariant(0, B_Unit), HNewtypeVariant(1, B_New, HInt(5)),
     HNewtypeVariant(2, B_Opt, HNone), HNewtypeVariant(2, B_Opt, HSome(HStr(B_hello))),
     HTupleVariant(3, B_Tup, <<HInt(5), HStr(B_hello)>>),
     HStructVariant(4, B_Rec, <<B_a>>, <<HStr(B_hello)>>)}

HostInputs ==
    ({TBool} \X {HBool(b) : b \in BOOLEAN})
        \cup ({U8} \X {HInt(n) : n \in 0..255})
        \cup ({I8} \X {HInt(n) : n \in (0 - 128)..127})
        \cup ({U16} \X {HInt(n) : n \in {i \in IntSamples : i >= 0 /\ i <= 65535}})
        \cup ({I16} \X {HInt(n) : n \in {i \in IntSamples : i >= 0 - 32768 /\ i <= 32767}})
        \cup ({TString} \X {HStr(b) : b \in Utf8Strings})
        \cup ({TOption(I8)} \X ({HNone} \cup {HSome(HInt(n)) : n \in {0 - 128, 0, 127}}))
        \cup ({Foo} \X FooValues)
        \cup ({Simple} \X SimpleValues)
        \cup ({TVec(Simple)} \X {HSeq(vs) : vs \in UNION {[1..n -> SimpleValues] : n \in 0..MaxElems}})
        \cup ({Details} \X DetailsValues)
        \cup ({Holder} \X HolderValues)
        \cup ({Fruit} \X FruitValues)
        \cup ({Mixed} \X MixedValues)
        \cup ({TVec(Fruit)} \X {HSeq(vs) : vs \in UNION {[1..n -> FruitValues] : n \in 0..MaxElems}})
        \cup ({TVec(U8)} \X {HSeq(vs) : vs \in UNION {[1..n -> {HInt(0), HInt(48), HInt(255)}] : n \in 0..MaxElems}})

(***************************************************************************)
(* The state machine: a host value is encoded, or a reply arrives from the *)
(* store; a decoder is built over it through one of the entry points and   *)
(* the host type's Deserialize impl is run on it.                          *)
(***************************************************************************)
VARIABLES pc, source, entry, original, encoded, rv, ty, de, result

\* a decoder driven call by call: the mode it was built in, the values left
\* on the cursor in use and where that cursor came from, the CowIters of the
\* sequences and maps being visited (innermost first), the payload of the
\* enum being visited, and the last call with what it returned
VARIABLES root, cursor, site, iters, content, last

dvars == <<pc, source, entry, original, encoded, rv, ty, de, result>>
cvars == <<root, cursor, site, iters, content, last>>
vars == <<pc, source, entry, original, encoded, rv, ty, de, result,
          root, cursor, site, iters, content, last>>

\* the record of a call: the operation, whether it returned Ok, the error, whether
\* it returned Some, the mode and the wire value of what it returned, the
\* cursor before the call, and for an element request the array visited and
\* the number of elements taken from it so far
Call(op, ok, err, some, cow, v, before, arr, n) ==
    [op |-> op, ok |-> ok, err |-> err, some |-> some, cow |-> cow, v |-> v,
     before |-> before, arr |-> arr, n |-> n]
NoCall == Call("none", TRUE, "", FALSE, "none", Nil, <<>>, <<>>, 0)

Init ==
    /\ pc = "idle"
    /\ source = "none"
    /\ entry = "none"
    /\ original = HNone
    /\ encoded = SerOk(Nil)
    /\ rv = Nil
    /\ ty = TBool
    /\ de = <<>>
    /\ result = Ok(HNone)
    /\ root = "none"
    /\ cursor = <<>>
    /\ site = "none"
    /\ iters = <<>>
    /\ content = <<>>
    /\ last = NoCall

\* value.serialize(Serializer)
SerializeCall ==
    /\ pc = "idle"
    /\ \E in \in HostInputs :
          /\ ty' = in[1]
          /\ original' = in[2]
          /\ encoded' = Serialize(in[2])
    /\ pc' = "encoded"
    /\ source' = "encoder"
    /\ UNCHANGED <<entry, rv, de, result, cvars>>

\* the values a decode entry point may be called with: a reply of the store
\* with the host's request, or the value the encoder just produced
PendingSet ==
    IF pc = "idle" THEN Inputs
    ELSE IF pc = "encoded" /\ encoded.ok THEN {<<encoded.v, ty>>}
    ELSE {}

\* Deserializer::new(&value)
NewBorrowed ==
    /\ \E in \in PendingSet :
          /\ rv' = in[1]
          /\ ty' = in[2]
          /\ de' = Deserializer_new(as_value_vec_ref(in[1]))
    /\ entry' = "new_ref"
    /\ pc' = "ready"
    /\ source' = (IF pc = "idle" THEN "store" ELSE source)
    /\ UNCHANGED <<original, encoded, result, cvars>>

\* Deserializer::new(value)
NewOwned ==
    /\ \E in \in PendingSet :
          /\ rv' = in[1]
          /\ ty' = in[2]
          /\ de' = Deserializer_new(as_value_vec_owned(in[1]))
    /\ entry' = "new_owned"
    /\ pc' = "ready"
    /\ source' = (IF pc = "idle" THEN "store" ELSE source)
    /\ UNCHANGED <<original, encoded, result, cvars>>

\* Deserializer::new(vec![..]) over a vector of borrowed or of owned values
NewVec ==
    /\ pc = "idle"
    /\ \E in \in VecInputs, borrowed \in BOOLEAN :
          /\ rv' = ValueVec(in[1])
          /\ ty' = in[2]
          /\ de' = Deserializer_new(as_value_vec_vec(
                       [i \in 1..Len(in[1]) |->
                           IF borrowed THEN CowBorrowed(in[1][i]) ELSE CowOwned(in[1][i])]))
          /\ entry' = (IF borrowed THEN "new_vec_ref" ELSE "new_vec_owned")
    /\ pc' = "ready"
    /\ source' = "store"
    /\ UNCHANGED <<original, encoded, result, cvars>>

\* Deserialize::deserialize(de)
DeserializeCall ==
    /\ pc = "ready"
    /\ result' = Deserialize(ty, de)
    /\ de' = <<>>
    /\ pc' = "done"
    /\ UNCHANGED <<source, entry, original, encoded, rv, ty, cvars>>

\* lib.rs: from_redis_value(rv)
from_redis_value ==
    /\ \E in \in PendingSet :
          /\ rv' = in[1]
          /\ ty' = in[2]
          /\ result' = Deserialize(in[2], Deserializer_new(as_value_vec_owned(in[1])))
    /\ entry' = "from_redis_value"
    /\ de' = <<>>
    /\ pc' = "done"
    /\ source' = (IF pc = "idle" THEN "store" ELSE source)
    /\ UNCHANGED <<original, encoded, cvars>>

\* lib.rs: RedisDeserialize::deserialize for redis::Value
RedisDeserialize_deserialize ==
    /\ \E in \in PendingSet :
          /\ rv' = in[1]
          /\ ty' = in[2]
          /\ result' = Deserialize(in[2], Deserializer_new(as_value_vec_owned(in[1])))
    /\ entry' = "RedisDeserialize"
    /\ de' = <<>>
    /\ pc' = "done"
    /\ source' = (IF pc = "idle" THEN "store" ELSE source)
    /\ UNCHANGED <<original, encoded, cvars>>

Next ==
    \/ SerializeCall
    \/ NewBorrowed
    \/ NewOwned
    \/ NewVec
    \/ DeserializeCall
    \/ from_redis_value
    \/ RedisDeserialize_deserialize

Spec == Init /\ [][Next]_vars

(***************************************************************************)
(* The decoder driven call by call: the public cursor methods, and the     *)
(* steps by which the requests and the visitors' accessors hand values to  *)
(* nested cursors.                                                         *)
(***************************************************************************)
\* the values a cursor is built over
CursorValues ==
    {Data(B_1), Data(B_hello), Data(<<255>>), Int_(5), Nil,
     Bulk(<<Data(B_a), Nil>>), Bulk(<<Bulk(<<Data(B_b)>>), Data(B_c)>>)}
CursorVecs == UNION {[1..n -> CursorValues] : n \in 0..MaxElems}

\* a cursor that can still be called
Live == site \notin {"none", "dropped"}

\* the front value of a cursor, Nil if it has none
FrontOf(values) == IF Len(values) = 0 THEN Nil ELSE values[1].v

\* Deserializer::new over a value (a vector of one) or over a vector, all of
\* its values borrowed or all owned
CursorNew ==
    /\ site = "none"
    /\ \E vs \in CursorVecs, borrowed \in BOOLEAN :
          /\ cursor' = Deserializer_new(as_value_vec_vec(
                           [i \in 1..Len(vs) |->
                               IF borrowed THEN CowBorrowed(vs[i]) ELSE CowOwned(vs[i])]))
          /\ root' = (IF borrowed THEN "Borrowed" ELSE "Owned")
    /\ site' = "root"
    /\ UNCHANGED <<iters, content, last, dvars>>

\* Deserializer::peek
Peek ==
    /\ Live
    /\ LET p == peek(cursor)
       IN last' = Call("peek", TRUE, "", p.some, "none", p.v, cursor, <<>>, 0)
    /\ UNCHANGED <<root, cursor, site, iters, content, dvars>>

\* Deserializer::next
CursorNext ==
    /\ Live
    /\ LET r == next(cursor)
       IN /\ cursor' = r.rest
          /\ last' = Call("next", r.ok, r.err, FALSE, IF r.ok THEN r.c.cow ELSE "none",
                          IF r.ok THEN r.c.v ELSE Nil, cursor, <<>>, 0)
    /\ UNCHANGED <<root, site, iters, content, dvars>>

\* Deserializer::next_bulk
NextBulk ==
    /\ Live
    /\ LET r == next_bulk(cursor)
       IN /\ cursor' = r.rest
          /\ last' = Call("next_bulk", r.ok, r.err, FALSE, IF r.ok THEN r.c.cow ELSE "none",
                          FrontOf(cursor), cursor, <<>>, 0)
    /\ UNCHANGED <<root, site, iters, content, dvars>>

\* Deserializer::next_bytes, and the byte leaf deserialize_byte_buf hands on
NextBytes ==
    /\ Live
    /\ LET r == next_bytes(cursor)
       IN /\ cursor' = r.rest
          /\ last' = Call("next_bytes", r.ok, r.err, FALSE, IF r.ok THEN r.c.cow ELSE "none",
                          FrontOf(cursor), cursor, <<>>, 0)
    /\ UNCHANGED <<root, site, iters, content, dvars>>

\* Deserializer::read_string, and the string leaf deserialize_str hands on
ReadString ==
    /\ Live
    /\ LET r == read_string(cursor)
       IN /\ cursor' = r.rest
          /\ last' = Call("read_string", r.ok, r.err, FALSE, IF r.ok THEN r.c.cow ELSE "none",
                          FrontOf(cursor), cursor, <<>>, 0)
    /\ UNCHANGED <<root, site, iters, content, dvars>>

\* deserialize_seq / deserialize_tuple / deserialize_map / deserialize_struct:
\* the decoder is consumed, a CowIter is built over the array it held
DeserializeSeq ==
    /\ Live
    /\ LET r == next_bulk(cursor)
       IN /\ cursor' = r.rest
          /\ iters' = (IF r.ok
                       THEN <<[iter |-> CowIter_new(r.c), mode |-> r.c.cow, arr |-> r.c.v, n |-> 0]>>
                                \o iters
                       ELSE iters)
          /\ last' = Call("deserialize_seq", r.ok, r.err, FALSE,
                          IF r.ok THEN r.c.cow ELSE "none", FrontOf(cursor), cursor, <<>>, 0)
    /\ site' = "dropped"
    /\ UNCHANGED <<root, content, dvars>>

\* an accessor takes the next value of the innermost CowIter and builds the
\* cursor its seed is run on; at the end a sequence or a key reports None,
\* a value reports EndOfStream
Access(op, here, endOk) ==
    /\ Len(iters) > 0
    /\ LET top == iters[1]
           n == CowIter_next(top.iter)
       IN IF n.some
          THEN /\ cursor' = Deserializer_new(as_value_vec_cow(n.c))
               /\ site' = here
               /\ iters' = [iters EXCEPT ![1] = [iter |-> n.iter, mode |-> top.mode,
                                                 arr |-> top.arr, n |-> top.n + 1]]
               /\ last' = Call(op, TRUE, "", TRUE, n.c.cow, n.c.v, cursor, top.arr, top.n + 1)
          ELSE /\ last' = Call(op, endOk, IF endOk THEN "" ELSE "EndOfStream", FALSE, "none",
                               Nil, cursor, top.arr, top.n)
               /\ iters' = [iters EXCEPT ![1] = [iter |-> n.iter, mode |-> top.mode,
                                                 arr |-> top.arr, n |-> top.n]]
               /\ UNCHANGED <<cursor, site>>
    /\ UNCHANGED <<root, content, dvars>>

\* SeqVisitor::next_element_seed
NextElement == Access("next_element", "element", TRUE)

\* MapVisitor::next_key_seed
NextKey == Access("next_key", "key", TRUE)

\* MapVisitor::next_value_seed
NextValue == Access("next_value", "value", FALSE)

\* the visitor returns: the innermost SeqVisitor or MapVisitor is dropped
Return ==
    /\ Len(iters) > 0
    /\ iters' = Tail(iters)
    /\ site' = "dropped"
    /\ UNCHANGED <<root, cursor, content, last, dvars>>

\* deserialize_option up to the visitor call: visit_some is given the decoder
\* as it is, visit_none and the error drop it
DeserializeOption ==
    /\ Live
    /\ LET maybe == option_maybe(cursor)
       IN /\ cursor' = maybe.rest
          /\ site' = (IF maybe.some /\ ~maybe.err THEN site ELSE "dropped")
          /\ last' = Call("deserialize_option", ~maybe.err,
                          IF maybe.err THEN "WrongValue" ELSE "", maybe.some, "none",
                          FrontOf(cursor), cursor, <<>>, 0)
    /\ UNCHANGED <<root, iters, content, dvars>>

\* deserialize_enum and EnumVisitor::variant_seed: the value taken is the
\* variant, decoded on a cursor of its own; the payload is kept for the
\* VariantVisitor
DeserializeEnum ==
    /\ Live
    /\ LET r == next(cursor)
       IN IF r.ok
          THEN /\ cursor' = Deserializer_new(as_value_vec_cow(EnumVisitor_new(r.c).variant))
               /\ content' = <<EnumVisitor_new(r.c).content>>
               /\ site' = "variant"
               /\ last' = Call("deserialize_enum", TRUE, "", FALSE, r.c.cow, r.c.v, cursor, <<>>, 0)
          ELSE /\ cursor' = r.rest
               /\ site' = "dropped"
               /\ last' = Call("deserialize_enum", FALSE, r.err, FALSE, "none", Nil, cursor, <<>>, 0)
               /\ UNCHANGED content
    /\ UNCHANGED <<root, iters, dvars>>

\* VariantVisitor::newtype_variant_seed / tuple_variant / struct_variant: a
\* cursor is built over the payload
VariantPayload ==
    /\ Len(content) > 0
    /\ cursor' = Deserializer_new(as_value_vec_cow(content[1]))
    /\ site' = "payload"
    /\ content' = <<>>
    /\ last' = Call("variant_payload", TRUE, "", FALSE, content[1].cow, content[1].v, cursor, <<>>, 0)
    /\ UNCHANGED <<root, iters, dvars>>

CursorStep ==
    \/ CursorNew
    \/ Peek
    \/ CursorNext
    \/ NextBulk
    \/ NextBytes
    \/ ReadString
    \/ DeserializeSeq
    \/ NextElement
    \/ NextKey
    \/ NextValue
    \/ Return
    \/ DeserializeOption
    \/ DeserializeEnum
    \/ VariantPayload

CursorSpec == Init /\ [][CursorStep]_vars

(***************************************************************************)
(* Properties.                                                             *)
(***************************************************************************)
\* the decode the entry point of the current state performs, on another value
SameEntry(r, t) ==
    Deserialize(t, Deserializer_new(IF entry \in {"new_ref", "new_vec_ref"} THEN as_value_vec_ref(r)
                                    ELSE as_value_vec_owned(r)))

EncodingError(r) == ~r.ok /\ r.err \in {"StrFromUtf8", "StringFromUtf8"}

\* the key/value pairs of a flattened array, and their keys
NumPairs(items) == Len(items) \div 2
KeyAt(items, i) == items[2 * i - 1]
ValueAt(items, i) == items[2 * i]
IsPairArray(v) ==
    /\ v.tag = "Bulk"
    /\ Len(v.items) % 2 = 0
    /\ \A i \in 1..NumPairs(v.items) :
          KeyAt(v.items, i).tag = "Data" /\ from_utf8(KeyAt(v.items, i).bytes)
Declared(t, key) == \E i \in 1..Len(t.names) : t.names[i] = key.bytes
HasKey(items, name) == \E i \in 1..NumPairs(items) : KeyAt(items, i).bytes = name
NoDuplicateKeys(items) ==
    \A i, j \in 1..NumPairs(items) :
        i # j => KeyAt(items, i).bytes # KeyAt(items, j).bytes

RECURSIVE StripUndeclared(_, _)
StripUndeclared(t, items) ==
    IF Len(items) < 2 THEN <<>>
    ELSE (IF Declared(t, items[1]) THEN <<items[1], items[2]>> ELSE <<>>)
             \o StripUndeclared(t, SubSeq(items, 3, Len(items)))

Perms(n) == {f \in [1..n -> 1..n] : \A i, j \in 1..n : i # j => f[i] # f[j]}
PermutePairs(items, f) ==
    Flatten([i \in 1..NumPairs(items) |-> <<KeyAt(items, f[i]), ValueAt(items, f[i])>>])

\* C1: decoding the encoding of a bool, an integer or a string against the
\* same type returns the value that was encoded
C1_ScalarRoundTrip ==
    (pc = "done" /\ source = "encoder" /\ ty.k \in {"bool", "int", "string"})
        => result = Ok(original)

C1_Witness ==
    /\ pc = "done" /\ source = "encoder"
    /\ ty = I8 /\ original = HInt(0 - 128)
    /\ rv = Data(<<45, 49, 50, 56>>)
    /\ result = Ok(HInt(0 - 128))

\* C2: an Array holding every declared field once, plus pairs whose key is
\* not declared, decodes to the struct the Array without those pairs decodes
\* to, whatever value the undeclared pairs carry
C2_ExtraPairsIgnored ==
    (/\ pc = "done" /\ ty.k = "struct"
     /\ IsPairArray(rv)
     /\ \A i \in 1..Len(ty.names) : HasKey(rv.items, ty.names[i])
     /\ \E i \in 1..NumPairs(rv.items) : ~Declared(ty, KeyAt(rv.items, i))
     /\ SameEntry(Bulk(StripUndeclared(ty, rv.items)), ty).ok)
        => result = SameEntry(Bulk(StripUndeclared(ty, rv.items)), ty)

\* C3: a struct of a string, an integer, an optional integer and a bool,
\* encoded and then decoded over the owned tree, is returned unchanged
C3_StructRoundTrip ==
    (pc = "done" /\ source = "encoder" /\ ty = Foo /\ entry # "new_ref")
        => result = Ok(original)

C3_Witness ==
    /\ pc = "done" /\ source = "encoder" /\ ty = Foo /\ entry = "new_owned"
    /\ original.items[3] = HSome(HInt(2))
    /\ result = Ok(original)

\* C4: when an Array of key/value pairs decodes to a struct, every
\* permutation of its pairs decodes to the same struct
C4_OrderIndependent ==
    (pc = "done" /\ ty.k = "struct" /\ rv.tag = "Bulk" /\ Len(rv.items) % 2 = 0
     /\ result.ok)
        => \A f \in Perms(NumPairs(rv.items)) :
              SameEntry(Bulk(PermutePairs(rv.items, f)), ty) = result

C4_Witness ==
    /\ pc = "done" /\ ty = Simple /\ result.ok
    /\ rv = Bulk(<<Data(B_b), Data(B_1), Data(B_a), Data(B_apple)>>)
    /\ result.val = HStruct(Simple.names, <<HStr(B_apple), HStr(B_1)>>)

\* every value of the Array is accepted by the request made for it: the
\* field's type under a declared key, the ignore request under any other
ValuesCoercible(t, items) ==
    \A i \in 1..NumPairs(items) :
        LET key == KeyAt(items, i)
        IN IF Declared(t, key)
           THEN SameEntry(ValueAt(items, i),
                          t.sub[CHOOSE j \in 1..Len(t.names) : t.names[j] = key.bytes]).ok
           ELSE SameEntry(ValueAt(items, i), TIgnoredAny).ok

RequiredFieldAbsent(t, items) ==
    \E i \in 1..Len(t.names) : t.sub[i].k # "option" /\ ~HasKey(items, t.names[i])

\* C5: on a well-formed Array (no duplicate keys, every value coercible) a
\* struct decode fails with MissingField exactly when a required field has
\* no key, and an optional field without a key decodes as absent
C5_MissingFieldIff ==
    (/\ pc = "done" /\ ty.k = "struct"
     /\ IsPairArray(rv) /\ NoDuplicateKeys(rv.items) /\ ValuesCoercible(ty, rv.items))
        => /\ (~result.ok /\ result.err = "MissingField") <=> RequiredFieldAbsent(ty, rv.items)
           /\ result.ok =>
                 \A i \in 1..Len(ty.names) :
                     (ty.sub[i].k = "option" /\ ~HasKey(rv.items, ty.names[i]))
                         => result.val.items[i] = HNone

C5_Witness ==
    /\ pc = "done" /\ ty = Complex
    /\ rv = Bulk(<<Data(B_b), Data(B_apple), Data(B_c), Data(B_1)>>)
    /\ result = missing_field(B_a)

C7_NullHandling ==
    (pc = "done" /\ rv = Nil)
        => /\ ty.k = "option" => result = Ok(HNone)
           /\ ty.k \in {"int", "string", "bool", "bytes"}
                 => (~result.ok /\ result.err = "WrongValue")

C7_Witness ==
    /\ pc = "done" /\ rv = Nil /\ ty = TString
    /\ ~result.ok /\ result.err = "WrongValue"

\* C8: an outer Array of k inner key/value Arrays decodes against a sequence
\* of structs to k structs, the i-th being the decode of the i-th inner Array
C8_Pipelined ==
    (/\ pc = "done" /\ ty = TVec(Simple) /\ rv.tag = "Bulk"
     /\ \A i \in 1..Len(rv.items) :
           rv.items[i].tag = "Bulk" /\ SameEntry(rv.items[i], Simple).ok)
        => /\ result.ok
           /\ result.val.k = "seq"
           /\ Len(result.val.items) = Len(rv.items)
           /\ \A i \in 1..Len(rv.items) :
                 result.val.items[i] = SameEntry(rv.items[i], Simple).val

C8_Witness ==
    /\ pc = "done" /\ ty = TVec(Simple) /\ source = "store"
    /\ rv = Bulk(<<Bulk(<<Data(B_a), Data(B_apple), Data(B_b), Data(B_1)>>),
                   Bulk(<<Data(B_b), Data(B_hello), Data(B_a), Data(B_1)>>)>>)
    /\ result = Ok(HSeq(<<HStruct(Simple.names, <<HStr(B_apple), HStr(B_1)>>),
                          HStruct(Simple.names, <<HStr(B_1), HStr(B_hello)>>)>>))

\* C9: a 2-element Array [Integer(i), ByteString(s)] decodes against
\* (u8, String) to (i, s), component by component in order, through every
\* entry point (from_redis_value, RedisDeserialize::deserialize,
\* Deserialize::deserialize over Deserializer::new)
C9_TuplePositional ==
    (/\ pc = "done" /\ ty = Pair_u8_String
     /\ entry \in {"from_redis_value", "RedisDeserialize", "new_owned", "new_ref"}
     /\ rv.tag = "Bulk" /\ Len(rv.items) = 2
     /\ rv.items[1].tag = "Int" /\ rv.items[1].int \in 0..255
     /\ rv.items[2].tag = "Data" /\ from_utf8(rv.items[2].bytes))
        => result = Ok(HTuple(<<HInt(rv.items[1].int), HStr(rv.items[2].bytes)>>))

C9_Witness ==
    /\ pc = "done" /\ ty = Pair_u8_String /\ entry = "from_redis_value"
    /\ rv = Bulk(<<Int_(5), Data(B_hello)>>)
    /\ result = Ok(HTuple(<<HInt(5), HStr(B_hello)>>))

\* C10: a struct of n fields encodes to an Array of 2n elements, element
\* 2i-1 the ByteString of the i-th field name and element 2i the encoding of
\* the i-th field value, in declaration order
C10_StructEncoding ==
    (pc = "encoded" /\ original.k = "struct")
        => /\ encoded.ok
           /\ encoded.v.tag = "Bulk"
           /\ Len(encoded.v.items) = 2 * Len(original.names)
           /\ \A i \in 1..Len(original.names) :
                 /\ encoded.v.items[2 * i - 1] = Data(original.names[i])
                 /\ SerOk(encoded.v.items[2 * i]) = Serialize(original.items[i])

C10_Witness ==
    /\ pc = "encoded" /\ ty = Holder
    /\ encoded.ok /\ Len(encoded.v.items) = 2
    /\ encoded.v.items[1] = Data(B_key)
    /\ encoded.v.items[2].tag = "Bulk" /\ Len(encoded.v.items[2].items) = 4
    /\ encoded.v.items[2].items[4] = Bulk(<<Data(B_a), Data(B_hello)>>)

\* the variants of the nodes of a wire tree, at every depth
RECURSIVE Tags(_)
Tags(v) == {v.tag} \cup UNION {Tags(v.items[i]) : i \in 1..Len(v.items)}

\* C11: no tree the encoder returns holds an Integer node at any depth; it
\* is made of ByteString, Array and Null nodes only
C11_NoIntegerNode ==
    (pc = "encoded" /\ encoded.ok) => Tags(encoded.v) \subseteq {"Data", "Bulk", "Nil"}

C11_Witness ==
    /\ pc = "encoded" /\ ty = Foo /\ encoded.ok
    /\ original.items[2] = HInt(0 - 128)
    /\ original.items[3] = HSome(HInt(32767))
    /\ original.items[4] = HBool(TRUE)
    /\ encoded.v.items[4] = Data(<<45, 49, 50, 56>>)
    /\ encoded.v.items[6] = Data(<<51, 50, 55, 54, 55>>)
    /\ encoded.v.items[8] = Data(B_1)

\* the enum variants of the shapes that carry data
NonUnitVariant == {"newtype_variant", "tuple_variant", "struct_variant"}

\* C12: encoding an enum variant that carries data returns the Custom error,
\* never a wire value, an abort or a partial tree
C12_NonUnitVariantFails ==
    (pc = "encoded" /\ original.k \in NonUnitVariant)
        => (~encoded.ok /\ encoded.err = "Custom")

\* C13: a unit variant is encoded as the byte string of its name, and a byte
\* string naming a declared unit variant decodes to that variant
C13_UnitVariantRoundTrip ==
    /\ (pc = "encoded" /\ original.k = "unit_variant")
          => encoded = SerOk(Data(original.s))
    /\ (pc = "done" /\ ty.k = "enum" /\ rv.tag = "Data")
          => \A i \in 1..Len(ty.names) :
                (rv.bytes = ty.names[i] /\ ty.sub[i].k = "unit_variant")
                    => result = Ok(HUnitVariant(i - 1, ty.names[i]))
    /\ (pc = "done" /\ source = "encoder" /\ original.k = "unit_variant")
          => result = Ok(original)

C13_Witness ==
    pc = "done" /\ source = "encoder" /\ ty = Fruit /\ original = HUnitVariant(1, B_Apple) /\ encoded = SerOk(Data(B_Apple)) /\ rv = Data(B_Apple) /\ result = Ok(HUnitVariant(1, B_Apple))

\* C14: a sequence of u8 is encoded as an Array holding, in order, one byte
\* string per element with the element's decimal text, and decoding that
\* Array as a sequence of u8 gives the sequence back
C14_ByteSeqRoundTrip ==
    /\ (pc = "encoded" /\ ty = TVec(U8))
          => /\ encoded.ok
             /\ encoded.v.tag = "Bulk"
             /\ Len(encoded.v.items) = Len(original.items)
             /\ \A i \in 1..Len(original.items) :
                   encoded.v.items[i] = Data(to_string(original.items[i].n))
    /\ (pc = "done" /\ source = "encoder" /\ ty = TVec(U8))
          => result = Ok(original)

C14_Witness ==
    pc = "done" /\ source = "encoder" /\ ty = TVec(U8) /\ original = HSeq(<<HInt(48), HInt(255)>>) /\ rv = Bulk(<<Data(<<52, 56>>), Data(<<50, 53, 53>>)>>) /\ result = Ok(original)

\* C15: an optional request on a single value gives absent for Nil, gives
\* present with the inner type decoded from that same value for Data and Int,
\* and fails with WrongValue for an Array
C15_OptionPeek ==
    (pc = "done" /\ ty.k = "option")
        => /\ rv.tag = "Nil" => result = Ok(HNone)
           /\ rv.tag \in {"Data", "Int"}
                 => LET inner == SameEntry(rv, ty.sub[1])
                    IN result = (IF inner.ok THEN Ok(HSome(inner.val)) ELSE inner)
           /\ rv.tag = "Bulk" => result = wrong_value

C15_Witness ==
    pc = "done" /\ ty = TOption(TVec(U8)) /\ rv = Bulk(<<Data(<<53>>)>>) /\ result = wrong_value

\* the requests that take a value from the cursor unconditionally
TakingKinds == {"bool", "int", "string", "bytes", "seq", "tuple", "struct", "enum"}

\* the pairs before the last key of an odd array decode without an error
\* other than that of a field still missing
PrefixDecodes(items, t) ==
    LET r == SameEntry(Bulk(SubSeq(items, 1, Len(items) - 1)), t)
    IN r.ok \/ r.err = "MissingField"

\* the last key of an odd array is text and is not a declared key seen before
LastKeyAccepted(items, t) ==
    LET key == items[Len(items)]
    IN /\ key.tag = "Data" /\ from_utf8(key.bytes)
       /\ ~(Declared(t, key) /\ HasKey(SubSeq(items, 1, Len(items) - 1), key.bytes))

\* C16: a scalar, sequence, struct or enum request on an exhausted cursor
\* fails with EndOfStream, and a struct decoded from an Array with an odd
\* number of elements fails with EndOfStream at the value of its last key
C16_EndOfStream ==
    /\ (pc = "done" /\ rv.tag = "Vec" /\ Len(rv.items) = 0 /\ ty.k \in TakingKinds)
          => result = Err("EndOfStream")
    /\ (pc = "done" /\ ty.k = "struct" /\ rv.tag = "Bulk" /\ Len(rv.items) % 2 = 1
            /\ PrefixDecodes(rv.items, ty) /\ LastKeyAccepted(rv.items, ty))
          => result = Err("EndOfStream")

C16_Witness ==
    pc = "done" /\ ty = Simple /\ rv = Bulk(<<Data(B_a), Data(B_apple), Data(B_b)>>) /\ result = Err("EndOfStream")

\* the outcome of element i of an Array decoded as the sequence or tuple t
ElementResult(items, i, t) ==
    SameEntry(items[i], IF t.k = "seq" THEN t.sub[1] ELSE t.sub[i])

\* the elements of an Array that a sequence or tuple request reaches
Reached(items, t) ==
    IF t.k = "seq" \/ Len(items) <= Len(t.sub) THEN 1..Len(items) ELSE 1..Len(t.sub)

\* the outcome of the key and of the value of pair i of an Array decoded as
\* the struct t
KeyResult(items, i, t) == SameEntry(KeyAt(items, i), TField(t.names))
ValueResult(items, i, t) ==
    LET key == KeyResult(items, i, t)
    IN SameEntry(ValueAt(items, i),
                 IF key.val.n = 0 THEN TIgnoredAny ELSE t.sub[key.val.n])
PairFails(items, i, t) ==
    ~KeyResult(items, i, t).ok \/ ~ValueResult(items, i, t).ok
PairRepeats(items, i, t) ==
    /\ KeyResult(items, i, t).ok
    /\ KeyResult(items, i, t).val.n # 0
    /\ \E j \in 1..(i - 1) : KeyAt(items, j) = KeyAt(items, i)

\* C17: the decode of a sequence, tuple or struct fails with the error of the
\* first element, key or value that fails, whatever follows it
C17_FirstFailurePropagates ==
    /\ (pc = "done" /\ ty.k \in {"seq", "tuple"} /\ rv.tag = "Bulk")
          => \A i \in Reached(rv.items, ty) :
                (/\ ~ElementResult(rv.items, i, ty).ok
                 /\ \A j \in 1..(i - 1) : ElementResult(rv.items, j, ty).ok)
                    => result = ElementResult(rv.items, i, ty)
    /\ (pc = "done" /\ ty.k = "struct" /\ rv.tag = "Bulk")
          => \A i \in 1..NumPairs(rv.items) :
                (/\ PairFails(rv.items, i, ty)
                 /\ \A j \in 1..(i - 1) : ~PairFails(rv.items, j, ty)
                 /\ \A j \in 1..i : ~PairRepeats(rv.items, j, ty))
                    => result = (IF ~KeyResult(rv.items, i, ty).ok
                                 THEN KeyResult(rv.items, i, ty)
                                 ELSE ValueResult(rv.items, i, ty))

C17_Witness ==
    pc = "done" /\ ty = TVec(U8) /\ rv = Bulk(<<Data(B_hello), Nil>>) /\ result = Err("ParseInt")

\* the first nested Array among the elements of an Array, 0 if there is none
FirstNested(items) ==
    IF \E i \in 1..Len(items) : items[i].tag = "Bulk"
    THEN CHOOSE i \in 1..Len(items) :
            items[i].tag = "Bulk" /\ \A j \in 1..(i - 1) : items[j].tag # "Bulk"
    ELSE 0

\* C18: a request on a wire variant it does not accept fails with WrongValue:
\* string, bool and bytes on Int, Bulk and Nil; an integer on Bulk and Nil; a
\* sequence, tuple or struct on anything but a Bulk; and a sequence of strings
\* fails on an Array holding an Array, with WrongValue when the elements
\* before it are text
C18_WrongValue ==
    /\ (pc = "done" /\ ty.k \in {"string", "bool", "bytes"} /\ rv.tag \in {"Int", "Bulk", "Nil"})
          => result = wrong_value
    /\ (pc = "done" /\ ty.k = "int" /\ rv.tag \in {"Bulk", "Nil"})
          => result = wrong_value
    /\ (pc = "done" /\ ty.k \in {"seq", "tuple", "struct"} /\ rv.tag \in {"Data", "Int", "Nil"})
          => result = wrong_value
    /\ (pc = "done" /\ ty = TVec(TString) /\ rv.tag = "Bulk" /\ FirstNested(rv.items) # 0)
          => /\ ~result.ok
             /\ (\A j \in 1..(FirstNested(rv.items) - 1) :
                    rv.items[j].tag = "Data" /\ from_utf8(rv.items[j].bytes))
                   => result = wrong_value

C18_Witness ==
    pc = "done" /\ ty = TVec(TString) /\ rv = Bulk(<<Data(B_hello), Bulk(<<Data(B_hello)>>)>>) /\ result = wrong_value

\* the value at the front of the cursor the decoder was built over
HasFront == rv.tag # "Vec" \/ Len(rv.items) > 0
Front == IF rv.tag = "Vec" THEN rv.items[1] ELSE rv

\* C19: the payload of a decoded enum is Nil whatever the input holds: a
\* tuple variant and a struct variant fail with WrongValue, a newtype variant
\* is what its payload type decodes from Nil, and no enum decode yields a
\* tuple or struct variant
C19_EnumPayloadNil ==
    /\ (pc = "done" /\ ty.k = "enum" /\ HasFront /\ Front.tag = "Data")
          => \A i \in 1..Len(ty.names) :
                Front.bytes = ty.names[i]
                    => /\ ty.sub[i].k \in {"tuple_variant", "struct_variant"}
                             => result = wrong_value
                       /\ ty.sub[i].k = "newtype_variant"
                             => LET p == Deserialize(ty.sub[i].sub[1], <<CowOwned(Nil)>>)
                                IN result = (IF p.ok
                                             THEN Ok(HNewtypeVariant(i - 1, ty.names[i], p.val))
                                             ELSE p)
    /\ (pc = "done" /\ ty.k = "enum" /\ result.ok)
          => result.val.k \notin {"tuple_variant", "struct_variant"}

C19_Witness ==
    pc = "done" /\ ty = Mixed /\ rv = ValueVec(<<Data(B_Tup), Data(B_1)>>) /\ result = wrong_value

\* the number a run of decimal digits denotes
RECURSIVE DecimalValue(_)
DecimalValue(digits) ==
    IF Len(digits) = 0 THEN 0
    ELSE 10 * DecimalValue(SubSeq(digits, 1, Len(digits) - 1)) + (digits[Len(digits)] - 48)

\* the text is a literal of the integer type t: an optional sign ('-' only
\* for a signed type), then at least one decimal digit, the number in range
IsLiteral(bytes, t) ==
    LET signed == Len(bytes) > 0 /\ (bytes[1] = 43 \/ (bytes[1] = 45 /\ t.signed))
        digits == IF signed THEN Tail(bytes) ELSE bytes
    IN /\ Len(digits) > 0
       /\ \A i \in 1..Len(digits) : digits[i] \in 48..57
       /\ IF signed /\ bytes[1] = 45
          THEN 0 - DecimalValue(digits) >= MinOf(t)
          ELSE DecimalValue(digits) <= MaxOf(t)

\* C20: malformed content of a byte string is a typed content error, never
\* WrongValue: an integer request on text that is not a literal of the type
\* fails with the parse error, and a string or integer request on bytes that
\* are not UTF-8 fails with the encoding error
C20_ContentErrors ==
    /\ (pc = "done" /\ ty.k = "int" /\ rv.tag = "Data" /\ from_utf8(rv.bytes)
            /\ ~IsLiteral(rv.bytes, ty))
          => result = Err("ParseInt")
    /\ (pc = "done" /\ ty.k = "int" /\ rv.tag = "Data" /\ from_utf8(rv.bytes)
            /\ IsLiteral(rv.bytes, ty))
          => result.ok
    /\ (pc = "done" /\ ty.k \in {"string", "int"} /\ rv.tag = "Data" /\ ~from_utf8(rv.bytes))
          => EncodingError(result)

C20_Witness ==
    pc = "done" /\ ty = U8 /\ rv = Data(<<50, 53, 54>>) /\ result = Err("ParseInt")

\* C21: an integer request of width w on Int(i) succeeds with the one number
\* of the target type's range that is congruent to i modulo 2^w
C21_IntCastWraps ==
    (pc = "done" /\ ty.k = "int" /\ rv.tag = "Int")
        => /\ result.ok
           /\ result.val.k = "int"
           /\ result.val.n >= MinOf(ty) /\ result.val.n <= MaxOf(ty)
           /\ (result.val.n - rv.int) % Pow2(ty.bits) = 0

C21_Witness ==
    pc = "done" /\ ty = U8 /\ rv = Int_(300) /\ result = Ok(HInt(44))

\* C22: the mode a decoder is built in is kept along the decode: the values
\* of the root cursor and of every cursor built for a sequence element, a map
\* key or a map value, every CowIter, and every string or byte leaf read
\* from such a cursor have the mode of the root, and a CowIter keeps the mode
\* it was built with
C22_ModePreserved ==
    /\ site \in {"root", "element", "key", "value"}
          => \A i \in 1..Len(cursor) : cursor[i].cow = root
    /\ \A k \in 1..Len(iters) :
          iters[k].iter.cow = iters[k].mode /\ iters[k].mode = root
    /\ (last.op \in {"next", "next_bulk", "next_bytes", "read_string", "deserialize_seq"}
            /\ last.ok /\ \A i \in 1..Len(last.before) : last.before[i].cow = root)
          => last.cow = root
    /\ (last.op \in {"next_element", "next_key", "next_value"} /\ last.some)
          => last.cow = root

C22_Witness ==
    root = "Borrowed" /\ Len(iters) = 2 /\ site = "element" /\ cursor = <<CowBorrowed(Data(B_b))>> /\ last.op = "next_element" /\ last.cow = "Borrowed"

\* C23: the element requests on a sequence over an Array of n elements yield
\* the elements in order, the i-th request a cursor holding the i-th element
\* alone, and every request after the n-th reports the end, without an error
C23_SeqYieldsInOrder ==
    /\ (last.op = "next_element" /\ last.some)
          => /\ last.n \in 1..Len(last.arr)
             /\ last.v = last.arr[last.n]
             /\ (site = "element" => Len(cursor) = 1 /\ cursor[1].v = last.v)
    /\ (last.op = "next_element" /\ ~last.some)
          => last.ok /\ last.n = Len(last.arr)
    /\ \A k \in 1..Len(iters) :
          /\ iters[k].n <= Len(iters[k].arr)
          /\ iters[k].iter.rest = SubSeq(iters[k].arr, iters[k].n + 1, Len(iters[k].arr))

C23_Witness ==
    last.op = "next_element" /\ ~last.some /\ last.ok /\ last.n = 2 /\ last.arr = <<Data(B_a), Nil>> /\ Len(iters) = 1 /\ iters[1].n = 2

\* the cursor methods that take a value
TakingCalls == {"next", "next_bulk", "next_bytes", "read_string"}

\* C24: peek leaves the cursor as it was and returns the value next would
\* return; next, next_bulk, next_bytes and read_string remove exactly the
\* front value, also when they fail on it, and on an empty cursor return
\* EndOfStream and leave it empty
C24_CursorFrame ==
    /\ last.op = "peek"
          => /\ cursor = last.before
             /\ last.some = next(cursor).ok
             /\ last.some => last.v = next(cursor).c.v
    /\ (last.op \in TakingCalls /\ Len(last.before) > 0)
          => /\ cursor = Tail(last.before)
             /\ last.err # "EndOfStream"
    /\ (last.op \in TakingCalls /\ Len(last.before) = 0)
          => ~last.ok /\ last.err = "EndOfStream" /\ cursor = <<>>

C24_Witness ==
    last.op = "next_bytes" /\ ~last.ok /\ last.err = "WrongValue" /\ last.before = <<CowOwned(Int_(5)), CowOwned(Data(B_1))>> /\ cursor = <<CowOwned(Data(B_1))>>

\* C26: an optional request on an exhausted cursor is absent, not an
\* EndOfStream failure, and on a cursor whose front value is Nil it is absent
\* and the Nil is still on the cursor
C26_OptionAbsent ==
    /\ (last.op = "deserialize_option" /\ Len(last.before) = 0)
          => last.ok /\ ~last.some /\ cursor = <<>>
    /\ (last.op = "deserialize_option" /\ Len(last.before) > 0 /\ last.v = Nil)
          => last.ok /\ ~last.some /\ cursor = last.before

C26_Witness ==
    last.op = "deserialize_option" /\ last.ok /\ ~last.some /\ last.before = <<CowBorrowed(Nil), CowBorrowed(Data(B_1))>> /\ cursor = last.before

\* the kind of an error: the two UTF-8 errors are the encoding error
ErrorKind(e) == IF e \in {"StrFromUtf8", "StringFromUtf8"} THEN "Encoding" ELSE e

\* two outcomes agree: equal host values, or errors of one kind on one field
SameOutcome(a, b) ==
    /\ a.ok = b.ok
    /\ a.ok => a.val = b.val
    /\ ~a.ok => ErrorKind(a.err) = ErrorKind(b.err) /\ a.field = b.field

\* the input of the decode call, handed over in the other mode
OtherMode ==
    LET borrowed == entry \in {"new_ref", "new_vec_ref"}
        vs == IF rv.tag = "Vec" THEN rv.items ELSE <<rv>>
    IN Deserializer_new(as_value_vec_vec(
           [i \in 1..Len(vs) |-> IF borrowed THEN CowOwned(vs[i]) ELSE CowBorrowed(vs[i])]))

\* C25: a decode over a borrowed tree and a decode over an owned copy of it
\* have the same outcome: equal host values, or errors of the same kind
C25_BorrowedOwnedAgree ==
    pc = "done" => SameOutcome(result, Deserialize(ty, OtherMode))

C25_Witness ==
    pc = "done" /\ entry = "new_ref" /\ ty = TVec(TString) /\ rv = Bulk(<<Data(B_hello), Data(<<255>>)>>) /\ result = Err("StrFromUtf8") /\ Deserialize(ty, OtherMode) = Err("StringFromUtf8")
====
